---- MODULE Spec2Model ----
(***************************************************************************)
(* Model of the two scrapers of wikimedia-scraper:                         *)
(*   app.py    : fetch_images_from_category (generator query, filter while *)
(*               walking), main (optional save of every accepted image);   *)
(*   scrape.py : get_images_from_category (plain listing), filter_images   *)
(*               (one get_image_info call per title, download_image).      *)
(* The remote side is a catalogue of titles 1..CatalogSize served in       *)
(* order; a continuation cursor <<p>> names the position of the next       *)
(* title, None is the absent cursor.                                       *)
(***************************************************************************)
EXTENDS Integers, Sequences, FiniteSets, TLC

\* ---------------------------------------------------------------- bounds
\* Number of titles in the remote category.
CatalogSize == 5
\* Largest value of app.py's --limit argument that is explored.
MaxLimit == 4
\* Stand-in for scrape.py's MAX_IMAGES (10000 in the source).
MAX_IMAGES == 4
\* Stand-in for the page size: 50 in app.py (gcmlimit), CMLIMIT = 500 in scrape.py.
PageSize == 2
\* Largest batch size B for which the batching statement is evaluated.
MaxBatch == 2
\* Cap on the number of listing calls (a remote that keeps answering
\* without 'query' but with a cursor would otherwise never stop app.py).
MaxCalls == 4

\* ------------------------------------------------------------- constants
\* scrape.py's hard-coded minimum dimension.
MIN_DIM == 1024

None == <<>>

Min(a, b) == IF a < b THEN a ELSE b

CeilDiv(a, b) == (a + b - 1) \div b

Range(s) == {s[i] : i \in 1..Len(s)}

NoDup(s) == \A i, j \in 1..Len(s) : i # j => s[i] # s[j]

\* ------------------------------------------------------- license labels
\* Labels are sequences of characters so that lower() and the substring
\* test are computed, not assumed.
L_PublicDomain == <<"P","u","b","l","i","c"," ","d","o","m","a","i","n">>
L_CC0 == <<"C","C","0">>
L_PD == <<"P","D">>
L_Unknown == <<"U","n","k","n","o","w","n"," ","L","i","c","e","n","s","e">>
L_Absent == <<"absent">>

T_public_domain == <<"p","u","b","l","i","c"," ","d","o","m","a","i","n">>
T_cc0 == <<"c","c","0">>
T_pd == <<"p","d">>

\* What the remote may report as the license field; L_Absent: the key is missing.
\* "Public domain" passes app.py's test only, "PD" scrape.py's only, "CC0"
\* both.
Labels == {L_PublicDomain, L_CC0, L_PD, L_Absent}

\* What the remote may report as <<width, height>>: both below 1024, wide
\* only, tall only (at the boundary), both above.
Dims == {<<10, 10>>, <<2000, 10>>, <<10, 1024>>, <<2000, 2000>>}

LowerChar(c) ==
  CASE c = "P" -> "p"
    [] c = "C" -> "c"
    [] c = "D" -> "d"
    [] c = "U" -> "u"
    [] c = "L" -> "l"
    [] OTHER -> c

\* str.lower()
Lower(s) == [i \in 1..Len(s) |-> LowerChar(s[i])]

\* Python's `t in s` on strings.
Contains(s, t) ==
  \E i \in 1..(Len(s) - Len(t) + 1) : SubSeq(s, i, i + Len(t) - 1) = t

\* --------------------------------------------------------------- state
VARIABLES
  prog,            \* "app" or "scrape": which script runs
  limit,           \* app.py: the limit argument; scrape.py: MAX_IMAGES
  min_resolution,  \* app.py: the min_resolution argument
  save,            \* app.py: the --save flag
  pc,              \* position of the program
  images,          \* the walker's list `images` (titles)
  total_fetched,   \* app.py's counter
  continue_token,  \* continue_param (app.py) / continue_token (scrape.py)
  data,            \* the decoded response being processed (app.py)
  idx,             \* loop index: item of the page, or image of main's loop
  returned,        \* the walker has returned to main
  result,          \* the value the walker returned
  error,           \* the exception that ended the program, "none" otherwise
  calls,           \* history: number of listing calls issued
  sent,            \* history: cursor carried by the latest listing call
  gcmlimit,        \* history: page size asked by the latest listing call
  last_cont,       \* history: cursor in the latest response, None if absent
  short,           \* history: responses that added fewer than PageSize items
  last,            \* history: the item the filter looked at last
  enriched,        \* history: titles for which a metadata call was issued
  fetched,         \* history: titles for which a content fetch was issued
  written,         \* history: titles for which a sink write was attempted
  outcome          \* history: outcome of the latest retrieval

vars == <<prog, limit, min_resolution, save, pc, images, total_fetched,
          continue_token, data, idx, returned, result, error, calls, sent,
          gcmlimit, last_cont, short, last, enriched, fetched, written,
          outcome>>

walkVars == <<images, total_fetched, continue_token, data>>
histCall == <<calls, sent, gcmlimit>>
histMain == <<enriched, fetched, written, outcome>>
config   == <<prog, limit, min_resolution, save>>

NoData == [query |-> FALSE, from |-> 1, n |-> 0, cont |-> None, base |-> 0]

NoItem == [seen |-> FALSE, title |-> 0, hasInfo |-> FALSE, hasExt |-> FALSE,
           label |-> L_Absent, width |-> 0, height |-> 0, accepted |-> FALSE]

\* What the remote may report about one title: no imageinfo at all (deleted
\* or malformed entry); imageinfo without extmetadata; or the full record.
\* Absent width and height read as 0 (app.py:42-43, scrape.py:90-91).
RemoteRecords ==
  {[hasInfo |-> FALSE, hasExt |-> FALSE, label |-> L_Absent, width |-> 0,
    height |-> 0]}
  \cup {[hasInfo |-> TRUE, hasExt |-> FALSE, label |-> L_Absent,
         width |-> d[1], height |-> d[2]] : d \in Dims}
  \cup {[hasInfo |-> TRUE, hasExt |-> TRUE, label |-> l, width |-> d[1],
         height |-> d[2]] : l \in Labels, d \in Dims}

\* The record of title t as the filter saw it, with the filter's decision.
Seen(t, r, ok) ==
  [seen |-> TRUE, title |-> t, hasInfo |-> r.hasInfo, hasExt |-> r.hasExt,
   label |-> r.label, width |-> r.width, height |-> r.height, accepted |-> ok]

Init ==
  /\ prog \in {"app", "scrape"}
  /\ limit \in (IF prog = "app" THEN 0..MaxLimit ELSE {MAX_IMAGES})
  /\ min_resolution \in (IF prog = "app" THEN {0, MIN_DIM} ELSE {MIN_DIM})
  /\ save \in (IF prog = "app" THEN BOOLEAN ELSE {TRUE})
  /\ pc = "while"
  /\ images = <<>>
  /\ total_fetched = 0
  /\ continue_token = None
  /\ data = NoData
  /\ idx = 1
  /\ returned = FALSE
  /\ result = <<>>
  /\ error = "none"
  /\ calls = 0
  /\ sent = None
  /\ gcmlimit = 0
  /\ last_cont = None
  /\ short = 0
  /\ last = NoItem
  /\ enriched = <<>>
  /\ fetched = <<>>
  /\ written = <<>>
  /\ outcome = "none"

\* ------------------------------------------------------ the remote side
\* Position of the first title a listing call with cursor c is answered from.
Pos(c) == IF c = None THEN 1 ELSE c[1]

\* Cursor the remote returns after serving k titles from position p:
\* present iff titles remain.
ContAfter(p, k) == IF p + k <= CatalogSize THEN <<p + k>> ELSE None

\* --------------------------------------------------------- the walkers
\* Variant of while_cond: the test is off by one (<= for <).
while_cond_off_by_one ==
  IF prog = "app" THEN total_fetched <= limit ELSE Len(images) <= limit

\* app.py:17 `while total_fetched < limit`, scrape.py:22 `while len(images) < MAX_IMAGES`
while_cond ==
  IF prog = "app" THEN total_fetched < limit ELSE Len(images) < limit

\* Variant of page_size_param: app.py asks for a full page every time.
page_size_param_full == PageSize

\* app.py:26 "gcmlimit": min(50, limit - total_fetched); scrape.py:29 "cmlimit": CMLIMIT
page_size_param ==
  IF prog = "app" THEN Min(PageSize, limit - total_fetched) ELSE PageSize

\* Variant of request_cursor: the cursor is never put into the request.
request_cursor_dropped == None

\* app.py:29-30, scrape.py:33-34: the cursor is sent when there is one.
request_cursor == IF continue_token # None THEN continue_token ELSE None

\* Variant of next_cursor: the walker keeps the cursor it had.
next_cursor_stale(cont) == continue_token

\* app.py:63, scrape.py:46: the cursor of the response becomes the walker's.
next_cursor(cont) == cont

\* Variant of return_value: the list is returned untrimmed.
return_value_untrimmed == images

\* scrape.py:52 `return images[:MAX_IMAGES]`; app.py:67 `return images`
return_value ==
  IF prog = "app" THEN images ELSE SubSeq(images, 1, Min(Len(images), limit))

\* The loop test passes and the listing call is issued.
IssueListing ==
  /\ pc = "while"
  /\ while_cond
  /\ calls < MaxCalls
  /\ calls' = calls + 1
  /\ sent' = request_cursor
  /\ gcmlimit' = page_size_param
  /\ pc' = "wait"
  /\ UNCHANGED <<config, walkVars, idx, returned, result, error, last_cont,
                 short, last, histMain>>

\* The loop test fails.
LoopExit ==
  /\ pc = "while"
  /\ ~while_cond
  /\ pc' = "return"
  /\ UNCHANGED <<config, walkVars, idx, returned, result, error, histCall,
                 last_cont, short, last, histMain>>

\* requests.get raises (transport) or response.json() raises (body is not
\* JSON): neither script catches it, the exception leaves the walker and main.
ListingFails ==
  /\ pc = "wait"
  /\ error' = "listing"
  /\ pc' = "raised"
  /\ short' = short + 1
  /\ UNCHANGED <<config, walkVars, idx, returned, result, histCall,
                 last_cont, last, histMain>>

\* The response has no 'query' key; it may or may not carry a cursor.
\* scrape.py:41-42 breaks; app.py goes on to its pagination test.
ListingNoQuery ==
  /\ pc = "wait"
  /\ \E cont \in {None, <<Pos(sent)>>} :
       /\ last_cont' = cont
       /\ data' = [query |-> FALSE, from |-> Pos(sent), n |-> 0,
                   cont |-> cont, base |-> total_fetched]
  /\ pc' = IF prog = "app" THEN "paginate" ELSE "return"
  /\ short' = IF prog = "app" THEN short ELSE short + 1
  /\ UNCHANGED <<config, images, total_fetched, continue_token, idx,
                 returned, result, error, histCall, last, histMain>>

\* scrape.py:37-50: a page of k titles is appended whole; with a cursor the
\* loop goes on, without one it breaks.
scrape_ListingPage ==
  /\ pc = "wait"
  /\ prog = "scrape"
  /\ Pos(sent) <= CatalogSize
  /\ \E k \in 1..Min(PageSize, CatalogSize - Pos(sent) + 1) :
       LET p == Pos(sent)
           cont == ContAfter(p, k)
       IN /\ images' = images \o [i \in 1..k |-> p + i - 1]
          /\ last_cont' = cont
          /\ data' = [query |-> TRUE, from |-> p, n |-> k, cont |-> cont,
                      base |-> 0]
          /\ short' = IF k < PageSize THEN short + 1 ELSE short
          /\ IF cont # None
               THEN continue_token' = next_cursor(cont) /\ pc' = "while"
               ELSE continue_token' = continue_token /\ pc' = "return"
  /\ UNCHANGED <<config, total_fetched, idx, returned, result, error,
                 histCall, last, histMain>>

\* app.py:33-36: a page of k records arrives; its items are looked at one
\* by one.
app_ListingPage ==
  /\ pc = "wait"
  /\ prog = "app"
  /\ Pos(sent) <= CatalogSize
  /\ \E k \in 1..Min(PageSize, CatalogSize - Pos(sent) + 1) :
       LET p == Pos(sent)
           cont == ContAfter(p, k)
       IN /\ last_cont' = cont
          /\ data' = [query |-> TRUE, from |-> p, n |-> k, cont |-> cont,
                      base |-> total_fetched]
  /\ idx' = 1
  /\ pc' = "items"
  /\ UNCHANGED <<config, images, total_fetched, continue_token, returned,
                 result, error, histCall, short, last, histMain>>

\* ---------------------------------------------------------- the filters
\* app.py:41 metadata.get("LicenseShortName", {}).get("value", "")
app_license(label) == IF label = L_Absent THEN <<>> ELSE label

\* scrape.py:93 extmetadata.get("License", {}).get("value", "Unknown License");
\* without extmetadata (scrape.py:92) the default is used as well.
scrape_license(hasExt, label) ==
  IF ~hasExt \/ label = L_Absent THEN L_Unknown ELSE label

\* app.py:47-48
app_passes(label, width, height) ==
  /\ \/ Contains(Lower(app_license(label)), T_public_domain)
     \/ Contains(Lower(app_license(label)), T_cc0)
  /\ (width >= min_resolution \/ height >= min_resolution)

\* Variant of scrape_passes: both dimensions are required (and for or).
scrape_passes_both(lic, width, height) ==
  /\ (width >= MIN_DIM /\ height >= MIN_DIM)
  /\ (Contains(Lower(lic), T_pd) \/ Contains(Lower(lic), T_cc0))

\* scrape.py:97
scrape_passes(lic, width, height) ==
  /\ (width >= MIN_DIM \/ height >= MIN_DIM)
  /\ (Contains(Lower(lic), T_pd) \/ Contains(Lower(lic), T_cc0))

\* Variant of new_total: every record looked at is counted.
new_total_every_record(ok) == total_fetched + 1

\* app.py:55 `total_fetched += 1`, inside the `if` of the two tests.
new_total(ok) == IF ok THEN total_fetched + 1 ELSE total_fetched

\* app.py:37-59: one iteration of the loop over the page's records.
app_ProcessItem ==
  /\ pc = "items"
  /\ idx <= data.n
  /\ \E r \in RemoteRecords :
       LET title == data.from + idx - 1
           ok == r.hasInfo /\ r.hasExt /\ app_passes(r.label, r.width, r.height)
       IN /\ last' = Seen(title, r, ok)
          /\ IF r.hasInfo /\ ~r.hasExt
               THEN \* image_info[0]["extmetadata"] raises KeyError (app.py:40)
                    /\ error' = "KeyError"
                    /\ pc' = "raised"
                    /\ UNCHANGED <<images, total_fetched, idx>>
               ELSE /\ error' = error
                    /\ images' = IF ok THEN Append(images, title) ELSE images
                    /\ total_fetched' = new_total(ok)
                    /\ IF (ok /\ total_fetched + 1 >= limit) \/ idx = data.n
                         THEN pc' = "paginate" /\ idx' = idx
                         ELSE pc' = "items" /\ idx' = idx + 1
  /\ UNCHANGED <<config, continue_token, data, returned, result, histCall,
                 last_cont, short, histMain>>

\* app.py:62-65
app_Paginate ==
  /\ pc = "paginate"
  /\ short' = IF total_fetched - data.base < PageSize
                THEN Min(short + 1, MaxCalls) ELSE short
  /\ IF data.cont # None
       THEN continue_token' = next_cursor(data.cont) /\ pc' = "while"
       ELSE continue_token' = continue_token /\ pc' = "return"
  /\ last' = NoItem
  /\ UNCHANGED <<config, images, total_fetched, data, idx, returned, result,
                 error, histCall, last_cont, histMain>>

\* app.py:67 / scrape.py:52, and the assignment in main (app.py:160,
\* scrape.py:108).
Return ==
  /\ pc = "return"
  /\ result' = return_value
  /\ returned' = TRUE
  /\ idx' = 1
  /\ pc' = "main"
  /\ UNCHANGED <<config, walkVars, error, histCall, last_cont, short, last,
                 histMain>>

\* ------------------------------------------------------------ the mains
Outcomes == {"ok", "http", "transport", "write"}

\* Exceptions download_image catches (scrape.py:82): RequestException only,
\* which covers transport failures and raise_for_status, not the OSError of
\* open()/write().
scrape_caught(o) == o \in {"http", "transport"}

\* Exceptions save_standardized_image catches (app.py:153-156): all of them.
app_caught(o) == o \in {"http", "transport", "write"}

\* Variant of save_requested: the images are saved whatever the flag says.
save_requested_always == TRUE

\* app.py:170 `if save:`
save_requested == save

\* Variant of next_index: an image whose retrieval failed is tried again.
next_index_retry(i, o) == IF o = "ok" THEN i + 1 ELSE i

\* app.py:164, scrape.py:87: the for loop moves on to the next image
\* whatever the outcome o of the retrieval was.
next_index(i, o) == i + 1

\* app.py:164-171: one iteration of main's loop over the accepted images.
app_MainItem ==
  /\ pc = "main"
  /\ prog = "app"
  /\ idx <= Len(result)
  /\ IF save_requested
       THEN \E o \in Outcomes :
              /\ outcome' = o
              /\ fetched' = Append(fetched, result[idx])
              /\ written' = IF o \in {"ok", "write"}
                              THEN Append(written, result[idx]) ELSE written
              /\ IF o = "ok" \/ app_caught(o)
                   THEN idx' = next_index(idx, o) /\ pc' = pc
                        /\ error' = error
                   ELSE idx' = idx /\ pc' = "raised" /\ error' = "sink"
       ELSE /\ idx' = idx + 1
            /\ UNCHANGED <<outcome, fetched, written, pc, error>>
  /\ UNCHANGED <<config, walkVars, returned, result, histCall, last_cont,
                 short, last, enriched>>

\* scrape.py:87-104: one iteration of filter_images: the metadata call, the
\* test, and the download of an image that passes.
scrape_FilterItem ==
  /\ pc = "main"
  /\ prog = "scrape"
  /\ idx <= Len(result)
  /\ enriched' = Append(enriched, result[idx])
  /\ \/ \* get_image_info: requests.get or response.json() raises
        /\ error' = "metadata"
        /\ pc' = "raised"
        /\ UNCHANGED <<idx, last, fetched, written, outcome>>
     \/ \E r \in RemoteRecords :
          LET title == result[idx]
              ok == /\ r.hasInfo
                    /\ scrape_passes(scrape_license(r.hasExt, r.label),
                                     r.width, r.height)
          IN /\ last' = Seen(title, r, ok)
             /\ IF ok
                  THEN \E o \in Outcomes :
                       /\ outcome' = o
                       /\ fetched' = Append(fetched, title)
                       /\ written' = IF o \in {"ok", "write"}
                                       THEN Append(written, title) ELSE written
                       /\ IF o = "ok" \/ scrape_caught(o)
                            THEN idx' = next_index(idx, o) /\ pc' = pc
                                 /\ error' = error
                            ELSE idx' = idx /\ pc' = "raised" /\ error' = "sink"
                  ELSE /\ idx' = idx + 1
                       /\ UNCHANGED <<outcome, fetched, written, pc, error>>
  /\ UNCHANGED <<config, walkVars, returned, result, histCall, last_cont,
                 short>>

\* Variant of MainDone: after its loop main walks the category again.
MainDone_walks_again ==
  /\ pc = "main"
  /\ idx > Len(result)
  /\ pc' = "while"
  /\ last' = NoItem
  /\ UNCHANGED <<config, walkVars, idx, returned, result, error, histCall,
                 last_cont, short, histMain>>

\* Variant of MainDone: the loop leaves out the last image.
MainDone_one_short ==
  /\ pc = "main"
  /\ idx >= Len(result)
  /\ pc' = "done"
  /\ last' = NoItem
  /\ UNCHANGED <<config, walkVars, idx, returned, result, error, histCall,
                 last_cont, short, histMain>>

\* main's loop is over (or `if images` was false).
MainDone ==
  /\ pc = "main"
  /\ idx > Len(result)
  /\ pc' = "done"
  /\ last' = NoItem
  /\ UNCHANGED <<config, walkVars, idx, returned, result, error, histCall,
                 last_cont, short, histMain>>

Next ==
  \/ IssueListing
  \/ LoopExit
  \/ ListingFails
  \/ ListingNoQuery
  \/ scrape_ListingPage
  \/ app_ListingPage
  \/ app_ProcessItem
  \/ app_Paginate
  \/ Return
  \/ app_MainItem
  \/ scrape_FilterItem
  \/ MainDone

Spec == Init /\ [][Next]_vars

\* ------------------------------------------------------------- liveness
\* The loop test passes and the listing call is issued, once the history
\* counter `calls` has stopped counting: the walker itself has no cap on the
\* number of calls (app.py:17-32, scrape.py:22-36).
IssueListingUncounted ==
  /\ pc = "while"
  /\ while_cond
  /\ calls = MaxCalls
  /\ sent' = request_cursor
  /\ gcmlimit' = page_size_param
  /\ pc' = "wait"
  /\ UNCHANGED <<config, walkVars, idx, returned, result, error, calls,
                 last_cont, short, last, histMain>>

NextLive == Next \/ IssueListingUncounted

\* Every call is answered (or fails) and the interpreter runs on: the
\* program and the remote both keep taking their steps.
LiveSpec == Init /\ [][NextLive]_vars /\ WF_vars(NextLive)

\* ================================================================ claims
\* The count of items collected toward the limit.
Count == IF prog = "app" THEN total_fetched ELSE Len(images)

\* C1 (as stated): in every reachable state the running count (total_fetched
\* in app.py, len(images) in scrape.py) is at most the limit, and the
\* returned sequence has at most limit items.
C1_CountNeverExceedsLimit ==
  /\ Count <= limit
  /\ (returned => Len(result) <= limit)

\* C1 (amended): the returned sequence has at most limit items; in app.py
\* total_fetched = len(images) never exceeds the limit; in scrape.py
\* len(images) is below the limit whenever a listing call is outstanding and
\* exceeds it by less than one page before the trim at the return.
C1_ReturnedAtMostLimit ==
  /\ (returned => Len(result) <= limit)
  /\ (prog = "app" => total_fetched <= limit /\ Len(images) <= limit)
  /\ (prog = "scrape" =>
        /\ Len(images) < limit + PageSize
        /\ (pc = "wait" => Len(images) < limit))

\* C1 witness: scrape.py collected more than the limit and returned the
\* list trimmed to the limit.
C1_Witness ==
  /\ prog = "scrape"
  /\ returned
  /\ Len(images) > limit
  /\ Len(result) = limit

\* C2: once the count has reached the limit no listing call is issued any
\* more, whatever cursor the last response carried.
C2_NoCallAfterLimit == [][Count >= limit => calls' = calls]_vars

\* C2 witness: limit 3 with pages of 2: the first page whole, one item of
\* the second, a cursor in the last response, and the walker has returned
\* after two calls.
C2_Witness ==
  /\ returned
  /\ limit = 3
  /\ calls = 2
  /\ result = <<1, 2, 3>>
  /\ last_cont # None

\* C3 (as stated): at most ceil(L/P) listing calls, whatever the remote
\* answers.
C3_CallsAtMostCeil == calls <= CeilDiv(limit, PageSize)

\* C3 (amended): at most ceil(L/P) listing calls plus one for every response
\* that added fewer than P items to the count (a short page, rejected items,
\* no 'query', a failed call).
C3_CallsAtMostCeilPlusShort == calls <= CeilDiv(limit, PageSize) + short

\* C3 witness: a finished walk that needed more than ceil(L/P) calls.
C3_Witness ==
  /\ returned
  /\ limit > 0
  /\ calls > CeilDiv(limit, PageSize)
  /\ calls = CeilDiv(limit, PageSize) + short

\* C4: the first listing call carries no cursor, every later one the cursor
\* of the response just before it, and no call follows a response without
\* a cursor.
C4_CursorChain ==
  [][calls' = calls + 1 =>
       IF calls = 0 THEN sent' = None
       ELSE last_cont # None /\ sent' = last_cont]_vars

\* C4 witness: a third listing call is outstanding, carrying the cursor of
\* the second response.
C4_Witness ==
  /\ pc = "wait"
  /\ calls = 3
  /\ sent # None
  /\ sent = last_cont

\* C5: when a listing call fails after pages were collected, the caller
\* still receives the items collected so far.
C5_PartialResultSurvives ==
  (error = "listing" /\ images # <<>>) => (returned /\ result = return_value)

RetrievalFailures == {"http", "transport", "write"}

\* C6: a failed retrieval of one item, with listed items still to come,
\* never ends the run.
C6_RetrievalFailureIsolated ==
  (outcome \in RetrievalFailures /\ idx < Len(result))
    => ~(pc = "raised" /\ error = "sink")

\* C7: an item without imageinfo, or with imageinfo but without
\* extmetadata, is never accepted and raises no error.
C7_UnresolvedRejectedQuietly ==
  (last.seen /\ ~(last.hasInfo /\ last.hasExt))
    => (~last.accepted /\ error # "KeyError")

\* C8: a failed metadata call does not keep the titles of the other
\* metadata calls from being enriched: when the run is over every returned
\* title has had its metadata call.
C8_MetadataFailureIsolated ==
  (pc = "raised" /\ error = "metadata")
    => Range(result) \subseteq Range(enriched)

\* C9: no title is collected, returned or fetched twice, and the count is
\* the number of distinct titles collected.
C9_NoDuplicates ==
  /\ NoDup(images)
  /\ NoDup(result)
  /\ NoDup(fetched)
  /\ Count = Cardinality(Range(images))

\* C9 witness: app.py reached its limit in the middle of the page of its
\* second or later call.
C9_Witness ==
  /\ prog = "app"
  /\ pc = "paginate"
  /\ calls >= 2
  /\ idx < data.n
  /\ total_fetched = limit
  /\ Len(images) >= 3

\* The allow-list, the minimum dimension and the label text of each script.
AllowList ==
  IF prog = "app" THEN {T_public_domain, T_cc0} ELSE {T_pd, T_cc0}

MinDimension == IF prog = "app" THEN min_resolution ELSE MIN_DIM

LabelText(it) ==
  IF it.label # L_Absent THEN it.label
  ELSE IF prog = "app" THEN <<>> ELSE L_Unknown

\* C10: a resolved item is accepted iff some allow-list token is a substring
\* of its lower-cased license label and its width or its height is at least
\* the minimum dimension.
C10_AcceptIffBothTests ==
  (last.seen /\ last.hasInfo /\ last.hasExt) =>
    (last.accepted <=>
       /\ \E t \in AllowList : Contains(Lower(LabelText(last)), t)
       /\ (last.width >= MinDimension \/ last.height >= MinDimension))

\* C10 witness: width 2000, height 10, minimum 1024 and an allowed license:
\* accepted.
C10_Witness ==
  /\ last.seen
  /\ last.width = 2000
  /\ last.height = 10
  /\ MinDimension = MIN_DIM
  /\ last.label = L_CC0
  /\ last.accepted

Terminated == pc \in {"done", "raised"}

\* C11: every run eventually terminates, with its result or with the
\* exception that ended it.
C11_Terminates == <>Terminated

\* C12 (as stated): the pipeline streams page by page: when the listing call
\* for a next page is issued, the titles collected from the pages before it
\* have had their metadata call (scrape.py) or their content fetch (app.py
\* with save).
C12_StreamsPageByPage ==
  (pc = "wait" /\ calls >= 2 /\ images # <<>>) =>
    IF prog = "scrape" THEN Range(images) \subseteq Range(enriched)
    ELSE save => Range(images) \subseteq Range(fetched)

\* C12 (amended): the pipeline has two phases: every metadata call and
\* every content fetch is issued after the walker has returned the whole
\* list, and no listing call is issued after that.
C12_WalkThenRetrieve ==
  [][/\ (returned => calls' = calls)
     /\ ((enriched' # enriched \/ fetched' # fetched) => returned)]_vars

\* C12 witness: the first content fetch happens after three listing calls
\* and the walker's return.
C12_Witness ==
  /\ returned
  /\ calls = 3
  /\ Len(result) >= 3
  /\ Len(fetched) = 1

\* C13 (as stated): for N listed titles and every maximum batch size B,
\* scrape.py has issued exactly ceil(N/B) metadata calls when its run is
\* over.
C13_CeilBatches ==
  (prog = "scrape" /\ pc = "done") =>
    \A B \in 1..MaxBatch : Len(enriched) = CeilDiv(Len(result), B)

\* C13 (amended): scrape.py issues one metadata call per title (batch size
\* 1), in list order and never twice: the titles enriched are always a
\* prefix of the list, one per finished iteration, and all N of them when
\* the run reaches the end of the list.
C13_OneCallPerTitle ==
  prog = "scrape" =>
    /\ Len(enriched) <= Len(result)
    /\ enriched = SubSeq(result, 1, Len(enriched))
    /\ (pc = "main" => Len(enriched) = idx - 1)
    /\ (pc = "done" => Len(enriched) = Len(result))

\* C13 witness: a finished run of scrape.py over four titles, four calls.
C13_Witness ==
  /\ prog = "scrape"
  /\ pc = "done"
  /\ Len(result) = MAX_IMAGES
  /\ Len(enriched) = MAX_IMAGES

\* C14 (as stated): in a run that has ended, every accepted item has had
\* exactly one content fetch and at most one sink write.
C14_OneFetchPerAccepted ==
  pc = "done" =>
    /\ NoDup(fetched)
    /\ NoDup(written)
    /\ (prog = "app" => Range(result) \subseteq Range(fetched))

\* C14 (amended): no item is fetched or written twice and nothing is
\* retried; only fetched items are written and only returned items are
\* fetched. app.py with save on has fetched every item of the returned list
\* exactly once when the run is over, with save off none; in scrape.py an
\* item has its fetch as soon as, and only if, it has passed the filter.
C14_AtMostOnceNoRetry ==
  /\ NoDup(fetched)
  /\ NoDup(written)
  /\ Range(written) \subseteq Range(fetched)
  /\ Range(fetched) \subseteq Range(result)
  /\ (prog = "app" /\ pc = "done" =>
        fetched = IF save THEN result ELSE <<>>)
  /\ (prog = "scrape" /\ last.seen =>
        (last.accepted <=> last.title \in Range(fetched)))

\* C14 witness: app.py with save on has ended; every one of three or more
\* accepted items was fetched once although some retrieval failed before
\* its write.
C14_Witness ==
  /\ prog = "app"
  /\ save
  /\ pc = "done"
  /\ Len(result) >= 3
  /\ fetched = result
  /\ Len(written) < Len(fetched)

\* C15: in app.py every listing call asks for min(page size, limit -
\* total_fetched) items: at least 1, at most the page size and at most the
\* number of items still missing; with limit <= 0 no call is issued.
C15_RequestedPageSize ==
  prog = "app" =>
    /\ (pc = "wait" =>
          /\ gcmlimit = Min(PageSize, limit - total_fetched)
          /\ gcmlimit >= 1
          /\ gcmlimit <= PageSize
          /\ gcmlimit <= limit - total_fetched)
    /\ (limit <= 0 => calls = 0)

\* C15 witness: a second or later call of app.py asks for one item, fewer
\* than a page, because one item is missing to the limit.
C15_Witness ==
  /\ prog = "app"
  /\ pc = "wait"
  /\ calls >= 2
  /\ gcmlimit = 1
  /\ limit - total_fetched = 1

\* C16: in app.py only items that passed both tests are counted:
\* total_fetched is the length of the result list, an item is in the list
\* iff the filter accepted it, a response without 'query' adds nothing, and
\* at the loop head after a response the walker holds that response's
\* cursor.
C16_CountsAcceptedOnly ==
  prog = "app" =>
    /\ total_fetched = Len(images)
    /\ (last.seen => (last.accepted <=> last.title \in Range(images)))
    /\ (pc = "paginate" /\ ~data.query => total_fetched = data.base)
    /\ (pc = "while" /\ calls > 0 =>
          last_cont # None /\ continue_token = last_cont)

\* C16 witness: app.py is back at its loop head after a full page whose
\* items were all rejected: nothing counted, nothing listed, the cursor of
\* that page in hand.
C16_Witness ==
  /\ prog = "app"
  /\ pc = "while"
  /\ limit > 0
  /\ calls = 1
  /\ data.query
  /\ data.n = PageSize
  /\ total_fetched = 0
  /\ images = <<>>
  /\ continue_token = data.cont
  /\ continue_token # None

\* C17: in app.py without the save option no content is fetched and nothing
\* is written (and app.py never issues a metadata call); with it the
\* fetches follow the accepted list: the i-th fetch is for the i-th item.
C17_SaveGatesRetrieval ==
  prog = "app" =>
    /\ enriched = <<>>
    /\ (~save => fetched = <<>> /\ written = <<>>)
    /\ (save => /\ Len(fetched) <= Len(result)
                /\ fetched = SubSeq(result, 1, Len(fetched)))

\* C17 witness: app.py without save has ended with two or more accepted
\* items, none fetched.
C17_Witness ==
  /\ prog = "app"
  /\ ~save
  /\ pc = "done"
  /\ Len(result) >= 2
  /\ fetched = <<>>

====
